---- MODULE Spec2Model ----
(***************************************************************************)
(* The Platform backend (Express + PostgreSQL): the four tables created by *)
(* initDb and the request handlers that read and write them.  A table is   *)
(* the set of its rows, a row is a record with the column names of the     *)
(* DDL, and every handler is one action: it reads the request, issues its  *)
(* single statement against the pool and records the response.             *)
(***************************************************************************)
EXTENDS Integers, Sequences, FiniteSets, TLC

VARIABLES
  articles,          \* rows of table articles
  ads,               \* rows of table ads
  comments,          \* rows of table comments
  support_messages,  \* rows of table support_messages
  seq,               \* the SERIAL sequences behind the id columns, per table
  clock,             \* the database clock read by NOW() / CURRENT_TIMESTAMP
  dbUp,              \* whether a statement sent through the pool reaches the database
  req,               \* the request being handled: route, :id parameter, JSON body
  res,               \* the response sent for it
  pool,              \* the Pool the variable pool refers to, and whether it was ended
  tables,            \* whether the four tables exist in the database
  boot               \* where the startup connection test stands

vars == <<articles, ads, comments, support_messages, seq, clock, dbUp, req, res,
          pool, tables, boot>>
store == <<articles, ads, comments, support_messages>>
startup == <<pool, tables, boot>>

----------------------------------------------------------------------------
(* Bounds of the model                                                     *)
MaxArticleId == 2    \* ids the articles sequence hands out
MaxAdId == 3         \* ids the ads sequence hands out
MaxCommentId == 2    \* ids the comments sequence hands out
MaxSupportId == 1    \* ids the support_messages sequence hands out
MaxClock == 3        \* timestamps the database clock hands out

----------------------------------------------------------------------------
(* Values                                                                  *)

\* A field missing from the JSON body is undefined in the handler and NULL
\* once passed as a statement parameter; a NULL column reads back as null.
Null == "<null>"
\* The same for values that are integers (ids): SERIAL ids start at 1.
NoId == 0

\* JSON booleans of the request and BOOLEAN columns, which may be NULL too.
True == "true"
False == "false"

\* JavaScript truthiness of a request field, and the || operator
Falsy(v) == v \in {Null, "", False}
JsOr(a, b) == IF Falsy(a) THEN b ELSE a

ArticleStatus == {"pending", "published", "rejected"}
AdStatus == {"pending", "active", "rejected"}

----------------------------------------------------------------------------
(* Responses                                                               *)

\* res.status(code).json(rows) / .json({message})
Json(code, rows) == [status |-> code, rows |-> rows, message |-> Null, stmts |-> 1]
Message(code, msg, n) == [status |-> code, rows |-> <<>>, message |-> msg, stmts |-> n]

\* the message of the error pool.query rejects with when the database
\* cannot be reached
ConnError == "connect ENETUNREACH"

\* an error handler that answers with its fixed text
ErrorHandlerGeneric(msg) == Message(500, "Internal Server Error", 1)

\* Global error handler: what asyncHandler passes to next(err)
ErrorHandler(msg) == Message(500, msg, 1)

\* the messages of the other errors pool.query rejects with: the pool was
\* ended, or the statement names a table that was never created
PoolEnded == "Cannot use a pool after calling end on the pool"
NoRelation == "relation does not exist"

\* pool.query resolves only when the pool is in use, the statement reaches
\* the database and the table it names exists
QueryOk == ~pool.ended /\ dbUp /\ tables

\* the message of the error pool.query rejects with otherwise
QueryError ==
  IF pool.ended THEN PoolEnded
  ELSE IF ~dbUp THEN ConnError
  ELSE NoRelation

----------------------------------------------------------------------------
(* Ordering of result rows                                                 *)

\* the row of S with the latest value in column col
Latest(S, col) == CHOOSE r \in S : \A r2 \in S : r2[col] <= r[col]

\* ORDER BY col DESC
RECURSIVE OrderByDesc(_, _)
OrderByDesc(S, col) ==
  IF S = {} THEN <<>>
  ELSE LET r == Latest(S, col) IN <<r>> \o OrderByDesc(S \ {r}, col)

\* the rows of RETURNING *, in id order (id is the primary key: an UPDATE
\* ... WHERE id = $1 returns at most one row)
RECURSIVE Returning(_)
Returning(S) ==
  IF S = {} THEN <<>>
  ELSE LET r == CHOOSE x \in S : \A y \in S : x.id <= y.id
       IN <<r>> \o Returning(S \ {r})

Range(s) == {s[i] : i \in DOMAIN s}

\* a SELECT without ORDER BY returns its rows in an order the database
\* chooses: every arrangement of the rows is a possible result
Unordered(S) == {s \in [1..Cardinality(S) -> S] : Range(s) = S}

----------------------------------------------------------------------------
(* Table constraints (initDb)                                              *)

\* the articles table without its CHECK on status
ArticlesConstraintsNoCheck(row) ==
  /\ row.title # Null
  /\ row.category # Null

\* articles: title and category NOT NULL, CHECK (status IN (...)); a CHECK
\* passes when its expression is NULL
ArticlesConstraints(row) ==
  /\ row.title # Null
  /\ row.category # Null
  /\ (row.status = Null \/ row.status \in ArticleStatus)

\* ads: client_name, email and plan NOT NULL, CHECK (status IN (...))
AdsConstraints(row) ==
  /\ row.client_name # Null
  /\ row.email # Null
  /\ row.plan # Null
  /\ (row.status = Null \/ row.status \in AdStatus)

\* the comments table without its foreign key
CommentsConstraintsNoReference(row) ==
  /\ row.author # Null
  /\ row.email # Null
  /\ row.content # Null

\* comments: author, email and content NOT NULL; article_id REFERENCES
\* articles(id), and a NULL reference satisfies a foreign key
CommentsConstraints(row) ==
  /\ row.author # Null
  /\ row.email # Null
  /\ row.content # Null
  /\ (row.article_id = NoId \/ \E a \in articles : a.id = row.article_id)

\* support_messages: name, email and message NOT NULL
SupportConstraints(row) ==
  /\ row.name # Null
  /\ row.email # Null
  /\ row.message # Null

\* a foreign key without ON DELETE CASCADE
CascadeNone(id) == comments

\* ON DELETE CASCADE of comments.article_id: the comments that remain once
\* the articles with the given id are deleted
Cascade(id) == {c \in comments : c.article_id # id}

NextVal(table) == [seq EXCEPT ![table] = @ + 1]

----------------------------------------------------------------------------
(* Request bodies                                                          *)

\* POST /api/articles {title:"T", category:"News", content:"C"}
ArticleBody ==
  [title |-> "T", subHeadline |-> Null, category |-> "News", author |-> Null,
   image |-> Null, excerpt |-> Null, content |-> "C", status |-> Null]

\* a body that carries the optional fields too
FullArticleBody ==
  [ArticleBody EXCEPT !.subHeadline = "S", !.author = "A", !.image = "I",
                      !.excerpt = "E", !.status = "published"]

SubmitArticleBodies ==
  {[ArticleBody EXCEPT !.status = s] : s \in {Null, "", "rejected", "draft"}}
  \cup {FullArticleBody}
  \cup {[ArticleBody EXCEPT !.title = Null], [ArticleBody EXCEPT !.category = ""],
        [ArticleBody EXCEPT !.content = Null]}

UpdateBody ==
  [title |-> "T2", subHeadline |-> "S2", category |-> "Opinion", author |-> "A2",
   image |-> "I2", excerpt |-> "E2", content |-> "C2", isBreaking |-> True]

UpdateArticleBodies == {UpdateBody, [UpdateBody EXCEPT !.title = Null]}

----------------------------------------------------------------------------
(* Article handlers                                                        *)

Request(op, id, body) == [op |-> op, id |-> id, body |-> body]

\* the status passed through as the request gives it
FinalStatusAsGiven(status) == status

\* a default that publishes
FinalStatusPublished(status) == JsOr(status, "published")

\* const finalStatus = status || 'pending'
FinalStatus(status) == JsOr(status, "pending")

\* INSERT INTO articles (title, sub_headline, category, author, image,
\* excerpt, content, status): the other columns take their defaults
NewArticle(b) ==
  [id |-> seq.articles, title |-> b.title, category |-> b.category,
   author |-> JsOr(b.author, "Citizen Reporter"), date |-> clock,
   image |-> b.image, excerpt |-> b.excerpt, content |-> b.content, views |-> 0,
   status |-> FinalStatus(b.status), is_breaking |-> False,
   sub_headline |-> JsOr(b.subHeadline, "")]

\* Input validation: if (!title || !category || !content)
ArticleInvalid(b) == Falsy(b.title) \/ Falsy(b.category) \/ Falsy(b.content)

\* 2. Submit New Article
SubmitArticle(b) ==
  /\ req' = Request("POST /api/articles", NoId, b)
  /\ UNCHANGED startup
  /\ UNCHANGED <<ads, comments, support_messages, dbUp>>
  /\ IF ArticleInvalid(b)
     THEN /\ res' = Message(400, "Title, category, and content are required", 0)
          /\ UNCHANGED <<articles, seq, clock>>
     ELSE IF ~QueryOk
     THEN /\ res' = ErrorHandler(QueryError)
          /\ UNCHANGED <<articles, seq, clock>>
     ELSE /\ seq.articles <= MaxArticleId
          /\ seq' = NextVal("articles")
          /\ IF ArticlesConstraints(NewArticle(b))
             THEN /\ clock < MaxClock
                  /\ clock' = clock + 1
                  /\ articles' = articles \cup {NewArticle(b)}
                  /\ res' = Json(201, <<NewArticle(b)>>)
             ELSE /\ res' = ErrorHandler("violates check constraint")
                  /\ UNCHANGED <<articles, clock>>

\* 1. Get All Published Articles
PublishedArticles ==
  OrderByDesc({a \in articles : a.status = "published" \/ a.status = Null}, "date")

ListPublishedArticles ==
  /\ req' = Request("GET /api/articles", NoId, Null)
  /\ UNCHANGED startup
  /\ res' = IF QueryOk THEN Json(200, PublishedArticles) ELSE ErrorHandler(QueryError)
  /\ UNCHANGED <<store, seq, clock, dbUp>>

\* 3. Admin: Get Pending Articles
PendingArticles == OrderByDesc({a \in articles : a.status = "pending"}, "date")

ListPendingArticles ==
  /\ req' = Request("GET /api/admin/pending-articles", NoId, Null)
  /\ UNCHANGED startup
  /\ res' = IF QueryOk THEN Json(200, PendingArticles) ELSE ErrorHandler(QueryError)
  /\ UNCHANGED <<store, seq, clock, dbUp>>

\* the flag passed through without its || false
ApprovedFlagAsGiven(a, isBreaking) ==
  [a EXCEPT !.status = "published", !.is_breaking = isBreaking, !.date = clock]

\* an approval that leaves the date as it was
ApprovedDateKept(a, isBreaking) ==
  [a EXCEPT !.status = "published", !.is_breaking = JsOr(isBreaking, False)]

\* UPDATE articles SET status = 'published', is_breaking = $1, date = NOW()
Approved(a, isBreaking) ==
  [a EXCEPT !.status = "published", !.is_breaking = JsOr(isBreaking, False),
            !.date = clock]

\* 4. Admin: Approve Article
ApproveArticle(id, isBreaking) ==
  /\ req' = Request("PATCH /api/admin/articles/:id/approve", id,
                    [isBreaking |-> isBreaking])
  /\ UNCHANGED startup
  /\ UNCHANGED <<ads, comments, support_messages, seq, dbUp>>
  /\ IF ~QueryOk
     THEN /\ res' = ErrorHandler(QueryError)
          /\ UNCHANGED <<articles, clock>>
     ELSE LET hit == {a \in articles : a.id = id}
              rows == {Approved(a, isBreaking) : a \in hit}
          IN IF rows = {}
             THEN /\ res' = Message(404, "Article not found", 1)
                  /\ UNCHANGED <<articles, clock>>
             ELSE /\ clock < MaxClock
                  /\ clock' = clock + 1
                  /\ articles' = (articles \ hit) \cup rows
                  /\ res' = Json(200, Returning(rows))

\* UPDATE articles SET title = $1, sub_headline = $2, category = $3,
\* author = $4, image = $5, content = $6, is_breaking = $7
Updated(a, b) ==
  [a EXCEPT !.title = b.title, !.sub_headline = b.subHeadline,
            !.category = b.category, !.author = b.author, !.image = b.image,
            !.content = b.content, !.is_breaking = b.isBreaking]

\* 5. Admin: Update Article
UpdateArticle(id, b) ==
  /\ req' = Request("PUT /api/articles/:id", id, b)
  /\ UNCHANGED startup
  /\ UNCHANGED <<ads, comments, support_messages, seq, clock, dbUp>>
  /\ IF ~QueryOk
     THEN /\ res' = ErrorHandler(QueryError)
          /\ UNCHANGED articles
     ELSE LET hit == {a \in articles : a.id = id}
              rows == {Updated(a, b) : a \in hit}
          IN IF rows = {}
             THEN /\ res' = Message(404, "Article not found", 1)
                  /\ UNCHANGED articles
             ELSE IF \A r \in rows : ArticlesConstraints(r)
             THEN /\ articles' = (articles \ hit) \cup rows
                  /\ res' = Json(200, Returning(rows))
             ELSE /\ res' = ErrorHandler("violates not-null constraint")
                  /\ UNCHANGED <<articles, clock>>

\* 6. Admin: Delete Article
DeleteArticle(id) ==
  /\ req' = Request("DELETE /api/articles/:id", id, Null)
  /\ UNCHANGED startup
  /\ UNCHANGED <<ads, support_messages, seq, clock, dbUp>>
  /\ IF ~QueryOk
     THEN /\ res' = ErrorHandler(QueryError)
          /\ UNCHANGED <<articles, comments>>
     ELSE /\ articles' = {a \in articles : a.id # id}
          /\ comments' = IF \E a \in articles : a.id = id THEN Cascade(id) ELSE comments
          /\ res' = Message(200, "Article deleted successfully", 1)

----------------------------------------------------------------------------
(* Ad handlers                                                             *)

AdBody ==
  [clientName |-> "Acme", email |-> "ads@acme.test", plan |-> "weekly",
   amount |-> "5000", receiptImage |-> Null, adImage |-> Null, adContent |-> Null,
   adUrl |-> Null, adHeadline |-> Null, adContentFile |-> Null, status |-> Null]

SubmitAdBodies ==
  { AdBody,
    [AdBody EXCEPT !.status = "active"],
    [AdBody EXCEPT !.clientName = Null],
    [AdBody EXCEPT !.email = Null],
    [AdBody EXCEPT !.plan = Null],
    [AdBody EXCEPT !.plan = ""] }

\* an INSERT that lists the status column too
NewAdStatusAsGiven(b) ==
  [id |-> seq.ads, client_name |-> b.clientName, email |-> b.email, plan |-> b.plan,
   amount |-> b.amount, status |-> JsOr(b.status, "pending"),
   date_submitted |-> clock,
   receipt_image |-> b.receiptImage, ad_image |-> b.adImage,
   ad_content |-> b.adContent, ad_url |-> b.adUrl, ad_headline |-> b.adHeadline,
   ad_content_file |-> b.adContentFile]

\* INSERT INTO ads (client_name, email, plan, amount, receipt_image, ad_image,
\* ad_content, ad_url, ad_headline, ad_content_file): status and
\* date_submitted take their defaults
NewAd(b) ==
  [id |-> seq.ads, client_name |-> b.clientName, email |-> b.email, plan |-> b.plan,
   amount |-> b.amount, status |-> "pending", date_submitted |-> clock,
   receipt_image |-> b.receiptImage, ad_image |-> b.adImage,
   ad_content |-> b.adContent, ad_url |-> b.adUrl, ad_headline |-> b.adHeadline,
   ad_content_file |-> b.adContentFile]

\* a validation that forgets the plan
AdInvalidPlanForgotten(b) == Falsy(b.clientName) \/ Falsy(b.email)

\* Input validation: if (!clientName || !email || !plan)
AdInvalid(b) == Falsy(b.clientName) \/ Falsy(b.email) \/ Falsy(b.plan)

\* 7. Submit Advertisement
SubmitAd(b) ==
  /\ req' = Request("POST /api/ads", NoId, b)
  /\ UNCHANGED startup
  /\ UNCHANGED <<articles, comments, support_messages, dbUp>>
  /\ IF AdInvalid(b)
     THEN /\ res' = Message(400, "Client name, email, and plan are required", 0)
          /\ UNCHANGED <<ads, seq, clock>>
     ELSE IF ~QueryOk
     THEN /\ res' = ErrorHandler(QueryError)
          /\ UNCHANGED <<ads, seq, clock>>
     ELSE /\ seq.ads <= MaxAdId
          /\ seq' = NextVal("ads")
          /\ IF AdsConstraints(NewAd(b))
             THEN /\ clock < MaxClock
                  /\ clock' = clock + 1
                  /\ ads' = ads \cup {NewAd(b)}
                  /\ res' = Json(201, <<NewAd(b)>>)
             ELSE /\ res' = ErrorHandler("violates not-null constraint")
                  /\ UNCHANGED <<ads, clock>>

\* Map snake_case to camelCase
MapAd(ad) ==
  [id |-> ad.id, clientName |-> ad.client_name, email |-> ad.email, plan |-> ad.plan,
   amount |-> ad.amount, status |-> ad.status, dateSubmitted |-> ad.date_submitted,
   receiptImage |-> ad.receipt_image, adImage |-> ad.ad_image,
   adContent |-> ad.ad_content, adUrl |-> ad.ad_url, adHeadline |-> ad.ad_headline,
   adContentFile |-> ad.ad_content_file]

\* result.rows.map(ad => ({...}))
MapAds(rows) == [i \in DOMAIN rows |-> MapAd(rows[i])]

\* the query without its WHERE clause
ActiveAdsUnfiltered == ads

\* SELECT * FROM ads WHERE status = 'active'
ActiveAds == {ad \in ads : ad.status = "active"}

\* 8. Get Active Ads (Public)
ListActiveAds ==
  /\ req' = Request("GET /api/ads/active", NoId, Null)
  /\ UNCHANGED startup
  /\ UNCHANGED <<store, seq, clock, dbUp>>
  /\ IF QueryOk
     THEN \E rows \in Unordered(ActiveAds) : res' = Json(200, MapAds(rows))
     ELSE res' = Message(500, QueryError, 1)

\* 8b. Get ALL Ads (Admin)
ListAllAds ==
  /\ req' = Request("GET /api/admin/ads", NoId, Null)
  /\ UNCHANGED startup
  /\ UNCHANGED <<store, seq, clock, dbUp>>
  /\ res' = IF QueryOk
            THEN Json(200, MapAds(OrderByDesc(ads, "date_submitted")))
            ELSE Message(500, QueryError, 1)

\* UPDATE ads SET status = 'active'
Activated(ad) == [ad EXCEPT !.status = "active"]

\* the handler without its rows.length === 0 test
ApproveAdUnchecked(id) ==
  /\ req' = Request("PATCH /api/admin/ads/:id/approve", id, Null)
  /\ UNCHANGED startup
  /\ UNCHANGED <<articles, comments, support_messages, seq, clock, dbUp>>
  /\ IF ~QueryOk
     THEN /\ res' = Message(500, QueryError, 1)
          /\ UNCHANGED ads
     ELSE LET hit == {ad \in ads : ad.id = id}
              rows == {[ad EXCEPT !.status = "active"] : ad \in hit}
          IN /\ ads' = (ads \ hit) \cup rows
             /\ res' = Json(200, Returning(rows))

\* 9. Admin: Approve Ad
ApproveAd(id) ==
  /\ req' = Request("PATCH /api/admin/ads/:id/approve", id, Null)
  /\ UNCHANGED startup
  /\ UNCHANGED <<articles, comments, support_messages, seq, clock, dbUp>>
  /\ IF ~QueryOk
     THEN /\ res' = Message(500, QueryError, 1)
          /\ UNCHANGED ads
     ELSE LET hit == {ad \in ads : ad.id = id}
              rows == {Activated(ad) : ad \in hit}
          IN IF rows = {}
             THEN /\ res' = Message(404, "Ad not found", 1)
                  /\ UNCHANGED ads
             ELSE /\ ads' = (ads \ hit) \cup rows
                  /\ res' = Json(200, Returning(rows))

\* a handler that answers 404 when the DELETE removes no row
DeleteAdNotFound(id) ==
  /\ req' = Request("DELETE /api/ads/:id", id, Null)
  /\ UNCHANGED startup
  /\ UNCHANGED <<articles, comments, support_messages, seq, clock, dbUp>>
  /\ IF ~QueryOk
     THEN /\ res' = Message(500, QueryError, 1)
          /\ UNCHANGED ads
     ELSE /\ ads' = {ad \in ads : ad.id # id}
          /\ res' = IF \E ad \in ads : ad.id = id
                    THEN Message(200, "Ad deleted successfully", 1)
                    ELSE Message(404, "Ad not found", 1)

\* 9b. Admin: Delete Ad
DeleteAd(id) ==
  /\ req' = Request("DELETE /api/ads/:id", id, Null)
  /\ UNCHANGED startup
  /\ UNCHANGED <<articles, comments, support_messages, seq, clock, dbUp>>
  /\ IF ~QueryOk
     THEN /\ res' = Message(500, QueryError, 1)
          /\ UNCHANGED ads
     ELSE /\ ads' = {ad \in ads : ad.id # id}
          /\ res' = Message(200, "Ad deleted successfully", 1)

----------------------------------------------------------------------------
(* Comment handlers                                                        *)

CommentBody ==
  [articleId |-> NoId, author |-> "Reader", email |-> "reader@mail.test",
   content |-> "Well said"]

PostCommentBodies ==
  {[CommentBody EXCEPT !.articleId = i] : i \in 0..seq.articles}
  \cup {[CommentBody EXCEPT !.articleId = 1, !.content = Null]}

\* INSERT INTO comments (article_id, author, email, content)
NewComment(b) ==
  [id |-> seq.comments, article_id |-> b.articleId, author |-> b.author,
   email |-> b.email, content |-> b.content, date |-> clock]

\* 10. Post Comment
PostComment(b) ==
  /\ req' = Request("POST /api/comments", NoId, b)
  /\ UNCHANGED startup
  /\ UNCHANGED <<articles, ads, support_messages, dbUp>>
  /\ IF ~QueryOk
     THEN /\ res' = Message(400, QueryError, 1)
          /\ UNCHANGED <<comments, seq, clock>>
     ELSE /\ seq.comments <= MaxCommentId
          /\ seq' = NextVal("comments")
          /\ IF CommentsConstraints(NewComment(b))
             THEN /\ clock < MaxClock
                  /\ clock' = clock + 1
                  /\ comments' = comments \cup {NewComment(b)}
                  /\ res' = Json(201, <<NewComment(b)>>)
             ELSE /\ res' = Message(400, "violates constraint", 1)
                  /\ UNCHANGED <<comments, clock>>

MapComment(c) ==
  [id |-> c.id, articleId |-> c.article_id, author |-> c.author, email |-> c.email,
   content |-> c.content, date |-> c.date]

\* result.rows.map(c => ({...}))
MapComments(rows) == [i \in DOMAIN rows |-> MapComment(rows[i])]

\* SELECT * FROM comments WHERE article_id = $1 ORDER BY date DESC
CommentsOf(id) == OrderByDesc({c \in comments : c.article_id = id}, "date")

\* 11. Get Comments
ListComments(id) ==
  /\ req' = Request("GET /api/articles/:id/comments", id, Null)
  /\ UNCHANGED startup
  /\ UNCHANGED <<store, seq, clock, dbUp>>
  /\ res' = IF QueryOk
            THEN Json(200, MapComments(CommentsOf(id)))
            ELSE Message(500, QueryError, 1)

----------------------------------------------------------------------------
(* Support handlers                                                        *)

SupportBody ==
  [name |-> "Visitor", email |-> "visitor@mail.test", subject |-> Null,
   message |-> "Help"]

SubmitSupportBodies == {SupportBody, [SupportBody EXCEPT !.message = Null]}

\* INSERT INTO support_messages (name, email, subject, message)
NewSupport(b) ==
  [id |-> seq.support_messages, name |-> b.name, email |-> b.email,
   subject |-> b.subject, message |-> b.message, date |-> clock,
   status |-> "unread"]

\* 12. Submit Support Message
SubmitSupport(b) ==
  /\ req' = Request("POST /api/support", NoId, b)
  /\ UNCHANGED startup
  /\ UNCHANGED <<articles, ads, comments, dbUp>>
  /\ IF ~QueryOk
     THEN /\ res' = Message(400, QueryError, 1)
          /\ UNCHANGED <<support_messages, seq, clock>>
     ELSE /\ seq.support_messages <= MaxSupportId
          /\ seq' = NextVal("support_messages")
          /\ IF SupportConstraints(NewSupport(b))
             THEN /\ clock < MaxClock
                  /\ clock' = clock + 1
                  /\ support_messages' = support_messages \cup {NewSupport(b)}
                  /\ res' = Message(201, "Support message sent", 1)
             ELSE /\ res' = Message(400, "violates not-null constraint", 1)
                  /\ UNCHANGED <<support_messages, clock>>

\* 13. Admin: Get Support Messages
ListSupport ==
  /\ req' = Request("GET /api/admin/support", NoId, Null)
  /\ UNCHANGED startup
  /\ UNCHANGED <<store, seq, clock, dbUp>>
  /\ res' = IF QueryOk
            THEN Json(200, OrderByDesc(support_messages, "date"))
            ELSE Message(500, QueryError, 1)

----------------------------------------------------------------------------
(* The database behind the pool                                            *)

\* the database becomes unreachable: pool.query rejects from now on
ConnectivityLost ==
  /\ dbUp
  /\ dbUp' = FALSE
  /\ UNCHANGED <<store, seq, clock, req, res, startup>>

\* the database is reachable again
ConnectivityRestored ==
  /\ ~dbUp
  /\ dbUp' = TRUE
  /\ UNCHANGED <<store, seq, clock, req, res, startup>>

----------------------------------------------------------------------------
(* Startup: the connection test, the IPv4 fallback and initDb.  app.listen  *)
(* is called while the module loads, so requests are handled from the      *)
(* first of these steps on; each step runs up to the next await.           *)

\* pool = new Pool({ connectionString, ... })
FirstPool == [config |-> "connectionString", ended |-> FALSE]

\* pool = new Pool({ host: address, ... })
SecondPool == [config |-> "IPv4 address", ended |-> FALSE]

\* the errors the connection test fails with
StartupErrors == {"connect ENETUNREACH", "connect ECONNREFUSED"}

\* what dns.lookup(parsedHost, { family: 4 }) calls back with
LookupResults == {"ENOTFOUND", "EAI_AGAIN", "address"}

\* await pool.query('SELECT NOW()') of the connection test: on success
\* initDb is called; on ENETUNREACH with a parsed host the IPv4 lookup is
\* started; every other failure is logged and nothing more is done
ConnectionTest ==
  /\ boot = "test"
  /\ IF dbUp
     THEN boot' = "initDb"
     ELSE \E err \in StartupErrors, parsedHost \in BOOLEAN :
            boot' = IF err = "connect ENETUNREACH" /\ parsedHost
                    THEN "lookup" ELSE "done"
  /\ UNCHANGED <<store, seq, clock, dbUp, req, res, pool, tables>>

\* the dns.lookup callback: ENOTFOUND and every other lookup error return;
\* with an address the pool is ended, and the callback awaits pool.end()
Lookup ==
  /\ boot = "lookup"
  /\ \E r \in LookupResults :
       IF r = "address"
       THEN /\ pool' = [pool EXCEPT !.ended = TRUE]
            /\ boot' = "ending"
       ELSE /\ boot' = "done"
            /\ UNCHANGED pool
  /\ UNCHANGED <<store, seq, clock, dbUp, req, res, tables>>

\* after await pool.end(): pool = new Pool({ host: address, ... }) and the
\* second SELECT NOW() is sent
RecreatePool ==
  /\ boot = "ending"
  /\ pool' = SecondPool
  /\ boot' = "retest"
  /\ UNCHANGED <<store, seq, clock, dbUp, req, res, tables>>

\* await pool.query('SELECT NOW()') on the second pool: on success initDb is
\* called, on failure the error is logged
ConnectionRetest ==
  /\ boot = "retest"
  /\ boot' = IF dbUp THEN "initDb" ELSE "done"
  /\ UNCHANGED <<store, seq, clock, dbUp, req, res, pool, tables>>

\* initDb: CREATE TABLE IF NOT EXISTS for the four tables, taken as one
\* step; an error is caught and logged
InitDb ==
  /\ boot = "initDb"
  /\ boot' = "done"
  /\ tables' = (tables \/ dbUp)
  /\ UNCHANGED <<store, seq, clock, dbUp, req, res, pool>>

Startup == ConnectionTest \/ Lookup \/ RecreatePool \/ ConnectionRetest \/ InitDb

----------------------------------------------------------------------------
(* Specification                                                           *)

\* the ids a request may name: those the sequence has handed out and the
\* next one, which no row has yet
ArticleIds == 1..seq.articles
AdIds == 1..seq.ads

\* the tables as initDb creates them, before any request: the startup
\* connection test has succeeded on the first pool
Init ==
  /\ articles = {}
  /\ ads = {}
  /\ comments = {}
  /\ support_messages = {}
  /\ seq = [articles |-> 1, ads |-> 1, comments |-> 1, support_messages |-> 1]
  /\ clock = 0
  /\ dbUp = TRUE
  /\ req = Request("none", NoId, Null)
  /\ res = Message(0, Null, 0)
  /\ pool = FirstPool
  /\ tables = TRUE
  /\ boot = "done"

ArticleRequest ==
  \/ \E b \in SubmitArticleBodies : SubmitArticle(b)
  \/ ListPublishedArticles
  \/ ListPendingArticles
  \/ \E id \in ArticleIds, isBreaking \in {Null, True, False} :
        ApproveArticle(id, isBreaking)
  \/ \E id \in ArticleIds, b \in UpdateArticleBodies : UpdateArticle(id, b)
  \/ \E id \in ArticleIds : DeleteArticle(id)

CommentRequest ==
  \/ \E b \in PostCommentBodies : PostComment(b)
  \/ \E id \in ArticleIds : ListComments(id)

AdRequest ==
  \/ \E b \in SubmitAdBodies : SubmitAd(b)
  \/ ListActiveAds
  \/ ListAllAds
  \/ \E id \in AdIds : ApproveAd(id)
  \/ \E id \in AdIds : DeleteAd(id)

SupportRequest ==
  \/ \E b \in SubmitSupportBodies : SubmitSupport(b)
  \/ ListSupport

Connectivity == ConnectivityLost \/ ConnectivityRestored

Next == ArticleRequest \/ CommentRequest \/ AdRequest \/ SupportRequest \/ Connectivity

Spec == Init /\ [][Next]_vars


----------------------------------------------------------------------------
(* Spec is the whole service.  The specifications below are the behaviours *)
(* of Spec in which only the named requests arrive; the properties are     *)
(* checked on them.                                                        *)

\* the article routes, with the database coming and going
SpecArticles == Init /\ [][ArticleRequest \/ Connectivity]_vars

\* the comment routes and the article routes that create and delete the
\* articles commented on
CommentedArticles ==
  \/ \E b \in {ArticleBody, FullArticleBody} : SubmitArticle(b)
  \/ \E id \in ArticleIds : DeleteArticle(id)

SpecComments == Init /\ [][CommentRequest \/ CommentedArticles \/ Connectivity]_vars

\* the ad and support routes
SpecAds == Init /\ [][AdRequest \/ SupportRequest \/ Connectivity]_vars

\* every route that creates or changes a row, over a database that stays
\* reachable
Moderation ==
  \/ \E b \in {ArticleBody, FullArticleBody, [ArticleBody EXCEPT !.status = "rejected"],
               [ArticleBody EXCEPT !.status = "draft"]} : SubmitArticle(b)
  \/ \E id \in ArticleIds : ApproveArticle(id, True)
  \/ \E id \in ArticleIds : UpdateArticle(id, UpdateBody)
  \/ \E a \in articles : PostComment([CommentBody EXCEPT !.articleId = a.id])
  \/ SubmitAd(AdBody)
  \/ \E id \in AdIds : ApproveAd(id)
  \/ SubmitSupport(SupportBody)

SpecSite == Init /\ [][Moderation]_vars

\* the delete routes and the routes that create the rows they delete
Removal ==
  \/ SubmitArticle(ArticleBody)
  \/ \E a \in articles : PostComment([CommentBody EXCEPT !.articleId = a.id])
  \/ SubmitAd(AdBody)
  \/ \E id \in ArticleIds : DeleteArticle(id)
  \/ \E id \in AdIds : DeleteAd(id)

SpecRemoval == Init /\ [][Removal \/ Connectivity]_vars

\* every route, with the database coming and going: request bodies that the
\* tables accept and bodies that they refuse.  The traffic is for the articles
\* and their comments or for the ads and the support desk: the writes of one
\* side arrive while the tables of the other side are untouched
ArticleSide ==
  \/ \E b \in {ArticleBody, [ArticleBody EXCEPT !.status = "draft"],
               [ArticleBody EXCEPT !.title = Null]} : SubmitArticle(b)
  \/ \E id \in ArticleIds : ApproveArticle(id, Null)
  \/ \E id \in ArticleIds, b \in UpdateArticleBodies : UpdateArticle(id, b)
  \/ \E id \in ArticleIds : DeleteArticle(id)
  \/ \E id \in ArticleIds : PostComment([CommentBody EXCEPT !.articleId = id])

AdSide ==
  \/ \E b \in {AdBody, [AdBody EXCEPT !.plan = Null]} : SubmitAd(b)
  \/ \E id \in AdIds : ApproveAd(id)
  \/ \E id \in AdIds : DeleteAd(id)
  \/ \E b \in SubmitSupportBodies : SubmitSupport(b)

Reads ==
  \/ ListPublishedArticles
  \/ ListPendingArticles
  \/ \E id \in ArticleIds : ListComments(id)
  \/ ListActiveAds
  \/ ListAllAds
  \/ ListSupport

Service ==
  \/ seq.ads = 1 /\ seq.support_messages = 1 /\ ArticleSide
  \/ seq.articles = 1 /\ seq.comments = 1 /\ AdSide
  \/ Reads

SpecService == Init /\ [][Service \/ Connectivity]_vars

\* the process as it starts: the module has loaded, the server listens and
\* the connection test is about to be answered; the database is one that
\* has the tables of an earlier deployment or a new one that has none
InitStartup ==
  /\ articles = {}
  /\ ads = {}
  /\ comments = {}
  /\ support_messages = {}
  /\ seq = [articles |-> 1, ads |-> 1, comments |-> 1, support_messages |-> 1]
  /\ clock = 0
  /\ dbUp \in BOOLEAN
  /\ req = Request("none", NoId, Null)
  /\ res = Message(0, Null, 0)
  /\ pool = FirstPool
  /\ tables \in BOOLEAN
  /\ boot = "test"

\* requests that arrive while the process starts and afterwards
Visitors ==
  \/ SubmitArticle(ArticleBody)
  \/ ListPublishedArticles
  \/ SubmitSupport(SupportBody)
  \/ ListActiveAds

SpecStartup == InitStartup /\ [][Startup \/ Visitors \/ Connectivity]_vars

----------------------------------------------------------------------------
(* Properties                                                              *)

\* a step that handles a request (the database comes and goes in steps of
\* its own, which leave req and res as they are)
Handles(op) == req'.op = op /\ dbUp' = dbUp /\ UNCHANGED startup

HasArticle(id) == \E a \in articles : a.id = id
HasAd(id) == \E ad \in ads : ad.id = id

\* C1: a Submit-article request that passes validation and carries no status
\* is answered 201 with the stored row, whose status is 'pending' (or 500 when
\* the database cannot be reached, and then nothing is stored)
C1_SubmitWithoutStatusIsPending ==
  (req.op = "POST /api/articles" /\ ~ArticleInvalid(req.body) /\ req.body.status = Null)
    => \/ /\ res.status = 201
          /\ Len(res.rows) = 1
          /\ res.rows[1].status = "pending"
          /\ res.rows[1] \in articles
       \/ /\ res.status = 500
          /\ res.message = ConnError

C1_Witness ==
  /\ req.op = "POST /api/articles"
  /\ req.body.status = Null
  /\ res.status = 201
  /\ res.rows[1] \in articles
  /\ Cardinality(articles) = 2

\* the articles of a step's second state whose status the step has set:
\* rows that are new, or whose status differs from the one they had
StatusSetByStep ==
  {a \in articles' : ~\E old \in articles : old.id = a.id /\ old.status = a.status}

\* C2 (as claimed): an Article becomes 'published' or 'rejected' only in a
\* step of Approve article, and enters the store as 'pending'
C2_OnlyAdminSetsStatus ==
  [][\A a \in StatusSetByStep :
        IF req'.op = "PATCH /api/admin/articles/:id/approve"
        THEN a.status \in {"published", "rejected"}
        ELSE a.status = "pending"]_vars

\* C2 (amended): an Article whose status is set in a step is 'published' by
\* Approve article on its id, or has the status its Submit-article request
\* supplied, or is 'pending' from a Submit-article request that supplied none;
\* no other request sets a status
C2_StatusSetByApproveOrSubmit ==
  [][\A a \in StatusSetByStep :
        \/ /\ req'.op = "PATCH /api/admin/articles/:id/approve"
           /\ req'.id = a.id
           /\ a.status = "published"
        \/ /\ req'.op = "POST /api/articles"
           /\ a.status = IF Falsy(req'.body.status) THEN "pending" ELSE req'.body.status]_vars

C2_Witness ==
  /\ req.op = "POST /api/articles"
  /\ req.body.status = "rejected"
  /\ res.status = 201
  /\ \E a \in articles : a.status = "rejected"
  /\ \E a \in articles : a.status = "published" /\ a.title = "T2"
  /\ ads # {}

\* what the response to Approve article and to List published articles says
\* of the table
C3_Responses ==
  /\ (req.op = "PATCH /api/admin/articles/:id/approve" /\ res.status = 200)
       => /\ Len(res.rows) = 1
          /\ res.rows[1].id = req.id
          /\ res.rows[1].status = "published"
          /\ res.rows[1].is_breaking
               = (IF req.body.isBreaking = Null THEN False ELSE req.body.isBreaking)
          /\ res.rows[1] \in articles
  /\ (req.op = "GET /api/articles" /\ res.status = 200)
       => \A a \in articles : a.status = "published" => a \in Range(res.rows)

\* C3: Approve article on a stored id answers 200 with the row, now
\* 'published' and with is_breaking the request's flag (false when the request
\* has none); the published listing holds every published row; and a
\* published row stays published, so stays in the listing, until it is deleted
C3_ApprovedIsPublishedAndListed ==
  [][/\ C3_Responses'
     /\ (Handles("PATCH /api/admin/articles/:id/approve") /\ dbUp /\ HasArticle(req'.id))
          => res'.status = 200
     /\ \A a \in articles, b \in articles' :
           (a.status = "published" /\ b.id = a.id) => b.status = "published"]_vars

C3_Witness ==
  /\ req.op = "GET /api/articles"
  /\ res.status = 200
  /\ \E a \in Range(res.rows) : a.author = "Citizen Reporter" /\ a.status = "published"
  /\ \E a \in articles : a.status = "pending"

\* C4: Approve article and Approve ad on an id that no row has answer 404
\* and leave the four tables as they were
C4_ApproveUnknownIdIsNotFound ==
  [][/\ (Handles("PATCH /api/admin/articles/:id/approve") /\ dbUp /\ ~HasArticle(req'.id))
          => /\ res'.status = 404
             /\ res'.message = "Article not found"
             /\ UNCHANGED store
     /\ (Handles("PATCH /api/admin/ads/:id/approve") /\ dbUp /\ ~HasAd(req'.id))
          => /\ res'.status = 404
             /\ res'.message = "Ad not found"
             /\ UNCHANGED store]_vars

C4_Witness ==
  /\ req.op = "PATCH /api/admin/ads/:id/approve"
  /\ ~HasAd(req.id)
  /\ res.status = 404
  /\ ads # {}
  /\ articles # {}
  /\ comments # {}

\* C5: Delete article on X removes, in the same step, exactly the comments
\* that reference X, and List comments for an id that no article has returns
\* the empty sequence
C5_DeleteArticleCascades ==
  [][/\ (Handles("DELETE /api/articles/:id") /\ res'.status = 200)
          => /\ comments' = {c \in comments : c.article_id # req'.id}
             /\ ~\E a \in articles' : a.id = req'.id
             /\ {c \in comments' : c.article_id = req'.id} = {}
     /\ (Handles("GET /api/articles/:id/comments") /\ res'.status = 200
           /\ ~HasArticle(req'.id))
          => res'.rows = <<>>]_vars

C5_Witness ==
  /\ req.op = "DELETE /api/articles/:id"
  /\ res.status = 200
  /\ ~HasArticle(req.id)
  /\ seq.articles = 2
  /\ seq.comments = 3
  /\ clock = 3
  /\ Cardinality(comments) = 1

\* C6: every stored Comment references an Article, and that Article is stored
C6_CommentHasStoredArticle ==
  \A c \in comments : c.article_id # NoId /\ HasArticle(c.article_id)

\* C7: Post comment naming an articleId that no article has is answered 400
\* and stores no comment
C7_CommentOnUnknownArticleRejected ==
  [][(Handles("POST /api/comments") /\ req'.body.articleId # NoId
        /\ ~HasArticle(req'.body.articleId))
       => /\ res'.status = 400
          /\ comments' = comments]_vars

C7_Witness ==
  /\ req.op = "POST /api/comments"
  /\ req.body.articleId # NoId
  /\ ~HasArticle(req.body.articleId)
  /\ req.body.content # Null
  /\ res.status = 400
  /\ dbUp
  /\ articles # {}
  /\ comments # {}

\* C8: Submit ad without clientName, email or plan is answered 400 before any
\* statement is issued, and the ads table stays as it was
C8_AdMissingFieldRejected ==
  [][(Handles("POST /api/ads")
        /\ (req'.body.clientName = Null \/ req'.body.email = Null \/ req'.body.plan = Null))
       => /\ res'.status = 400
          /\ res'.stmts = 0
          /\ ads' = ads
          /\ seq' = seq]_vars

C8_Witness ==
  /\ req.op = "POST /api/ads"
  /\ req.body.plan = Null
  /\ req.body.clientName # Null
  /\ req.body.email # Null
  /\ res.status = 400
  /\ dbUp
  /\ ads # {}

\* C9: List active ads returns each stored Ad whose status is 'active' once,
\* under the external field names, and nothing else
C9_ActiveAdsListedExactly ==
  (req.op = "GET /api/ads/active" /\ res.status = 200)
    => /\ {r.id : r \in Range(res.rows)} = {ad.id : ad \in {x \in ads : x.status = "active"}}
       /\ Len(res.rows) = Cardinality({x \in ads : x.status = "active"})
       /\ \A r \in Range(res.rows) : \E ad \in ads :
             /\ ad.id = r.id
             /\ r.status = "active"
             /\ r.clientName = ad.client_name
             /\ r.dateSubmitted = ad.date_submitted
             /\ r.plan = ad.plan

C9_Witness ==
  /\ req.op = "GET /api/ads/active"
  /\ res.status = 200
  /\ Cardinality(ads) = 3
  /\ Len(res.rows) = 1

\* the status columns hold values of their domains
StatusInDomain ==
  /\ \A a \in articles : a.status \in ArticleStatus
  /\ \A ad \in ads : ad.status \in AdStatus

\* C10: every stored Article and every stored Ad has a status of its domain,
\* and a Submit-article request whose status is outside the domain stores
\* no row
C10_StatusInDomain ==
  [][/\ StatusInDomain /\ StatusInDomain'
     /\ (Handles("POST /api/articles") /\ ~Falsy(req'.body.status)
           /\ req'.body.status \notin ArticleStatus)
          => /\ articles' = articles
             /\ res'.status = 500]_vars

C10_Witness ==
  /\ req.op = "POST /api/articles"
  /\ req.body.status = "draft"
  /\ res.status = 500
  /\ \E a \in articles : a.status = "published"
  /\ \E ad \in ads : ad.status = "active"

\* C11: the status of an Article and of an Ad changes only out of 'pending':
\* a row that is 'published', 'rejected' or 'active' keeps that status in
\* every step that keeps the row
C11_StatusChangesOnlyFromPending ==
  [][/\ \A a \in articles, b \in articles' :
           (b.id = a.id /\ b.status # a.status) => a.status = "pending"
     /\ \A ad \in ads, bd \in ads' :
           (bd.id = ad.id /\ bd.status # ad.status) => ad.status = "pending"]_vars

\* C12: Delete article and Delete ad on an id that no row has answer 200 with
\* the message of a successful delete and leave the four tables as they were;
\* a delete that follows a successful delete of the same id gives the same
\* response and the same tables
C12_DeleteUnknownIdSucceeds ==
  [][/\ (Handles("DELETE /api/articles/:id") /\ dbUp /\ ~HasArticle(req'.id))
          => /\ res' = Message(200, "Article deleted successfully", 1)
             /\ UNCHANGED store
     /\ (Handles("DELETE /api/ads/:id") /\ dbUp /\ ~HasAd(req'.id))
          => /\ res' = Message(200, "Ad deleted successfully", 1)
             /\ UNCHANGED store
     /\ (/\ req.op \in {"DELETE /api/articles/:id", "DELETE /api/ads/:id"}
         /\ res.status = 200
         /\ Handles(req.op) /\ req'.id = req.id /\ dbUp)
          => /\ res' = res
             /\ UNCHANGED store]_vars

C12_Witness ==
  /\ req.op = "DELETE /api/ads/:id"
  /\ req.id = seq.ads
  /\ res.status = 200
  /\ ads # {}
  /\ articles # {}
  /\ comments # {}

\* the request of a step reaches pool.query: it is not one that validation
\* answers before any statement
IssuesStatement ==
  /\ dbUp' = dbUp
  /\ UNCHANGED startup
  /\ req'.op # "none"
  /\ ~(req'.op = "POST /api/articles" /\ ArticleInvalid(req'.body))
  /\ ~(req'.op = "POST /api/ads" /\ AdInvalid(req'.body))

\* the statement of a step's request fails: the database is unreachable, or
\* the row the statement would write breaks a constraint of its table
StatementFails ==
  \/ ~dbUp
  \/ req'.op = "POST /api/articles" /\ ~ArticlesConstraints(NewArticle(req'.body))
  \/ /\ req'.op = "PUT /api/articles/:id"
     /\ \E a \in articles : a.id = req'.id /\ ~ArticlesConstraints(Updated(a, req'.body))
  \/ req'.op = "POST /api/comments" /\ ~CommentsConstraints(NewComment(req'.body))
  \/ req'.op = "POST /api/support" /\ ~SupportConstraints(NewSupport(req'.body))

\* C13 (as claimed): on every route a failed statement is answered 500 with
\* the error's message, after one attempt, and the tables stay as they were
C13_FailedStatementIs500 ==
  [][(IssuesStatement /\ StatementFails)
       => /\ res'.status = 500
          /\ res'.message # Null
          /\ res'.stmts = 1
          /\ UNCHANGED store]_vars

\* C13 (amended): a failed statement is answered with the error's message
\* after one attempt and the tables stay as they were; the status is 400 on
\* Post comment and Submit support message and 500 on every other route
C13_FailedStatementIs500Or400 ==
  [][(IssuesStatement /\ StatementFails)
       => /\ res'.status = IF req'.op \in {"POST /api/comments", "POST /api/support"}
                           THEN 400 ELSE 500
          /\ res'.message # Null
          /\ ~dbUp => res'.message = ConnError
          /\ res'.rows = <<>>
          /\ res'.stmts = 1
          /\ UNCHANGED store]_vars

C13_Witness ==
  /\ req.op = "POST /api/support"
  /\ res.status = 400
  /\ res.message = ConnError
  /\ ads # {}
  /\ support_messages # {}

\* C14: an Ad that a step adds to the table is added by Submit ad and is
\* 'pending', whatever status the request body carries, and an Ad that a
\* step makes 'active' is made so by Approve ad on its id
C14_AdCreatedPendingActivatedByApprove ==
  [][\A ad \in ads' :
        /\ ~HasAd(ad.id)
             => /\ req'.op = "POST /api/ads"
                /\ ad.status = "pending"
                /\ res' = Json(201, <<ad>>)
        /\ (ad.status = "active" /\ ad \notin ads)
             => /\ req'.op = "PATCH /api/admin/ads/:id/approve"
                /\ req'.id = ad.id
                /\ HasAd(ad.id)]_vars

C14_Witness ==
  /\ req.op = "POST /api/ads"
  /\ req.body.status = "active"
  /\ res.status = 201
  /\ res.rows[1].status = "pending"
  /\ res.rows[1] \in ads
  /\ \E ad \in ads : ad.status = "active"

\* C15: Approve article gives the row the time of the approval as its date,
\* later than the date of every other article, whether or not the row was
\* published before; the published listing is in descending date order; and
\* the listing that follows an Approve article on X has X as its first row
C15_ApprovedIsListedFirst ==
  [][/\ (Handles("PATCH /api/admin/articles/:id/approve") /\ res'.status = 200)
          => /\ res'.rows[1].date = clock
             /\ \A a \in articles : a.date < res'.rows[1].date
             /\ \A a \in articles' : a.id # req'.id => a.date < res'.rows[1].date
     /\ (Handles("GET /api/articles") /\ res'.status = 200)
          => /\ \A i, j \in DOMAIN res'.rows :
                   i < j => res'.rows[i].date > res'.rows[j].date
             /\ (req.op = "PATCH /api/admin/articles/:id/approve" /\ res.status = 200)
                  => /\ res'.rows # <<>>
                     /\ res'.rows[1].id = req.id]_vars

C15_Witness ==
  /\ req.op = "GET /api/articles"
  /\ res.status = 200
  /\ Len(res.rows) = 2
  /\ res.rows[1].id < res.rows[2].id
  /\ res.rows[1].date > res.rows[2].date

\* C16: Update article on a stored id answers 200 with the row, in which
\* title, sub-headline, category, author, image, excerpt, content and
\* isBreaking are the request's and id, status, date and views are as they
\* were, and leaves every other row as it was; on an id that no row has it
\* answers 404 and changes nothing
C16_UpdateOverwritesEditableFields ==
  [][/\ (Handles("PUT /api/articles/:id") /\ res'.status = 200)
          => \E a \in articles :
                /\ a.id = req'.id
                /\ res'.rows = <<[a EXCEPT !.title = req'.body.title,
                                           !.sub_headline = req'.body.subHeadline,
                                           !.category = req'.body.category,
                                           !.author = req'.body.author,
                                           !.image = req'.body.image,
                                           !.excerpt = req'.body.excerpt,
                                           !.content = req'.body.content,
                                           !.is_breaking = req'.body.isBreaking]>>
                /\ articles' = (articles \ {a}) \cup {res'.rows[1]}
                /\ UNCHANGED <<ads, comments, support_messages>>
     /\ (Handles("PUT /api/articles/:id") /\ dbUp /\ ~HasArticle(req'.id))
          => /\ res'.status = 404
             /\ UNCHANGED store]_vars

\* C17: the server answers requests from the start; a request whose
\* statement is sent while the database is unreachable is answered with an
\* error; a request served successfully finds the tables created; and once
\* the startup has run to its end and the database is reachable, a request
\* is served successfully
C17_ServesOnceConnectivityRecovers ==
  [][IssuesStatement
       => /\ ~dbUp => res'.status >= 400
          /\ res'.status \in {200, 201} => tables
          /\ (boot = "done" /\ dbUp) => res'.status \in {200, 201}]_vars

\* C18: no request handler sends its statement to a pool that was ended
C18_NoQueryOnEndedPool ==
  [][IssuesStatement => ~pool.ended]_vars

====
